---------------------------- MODULE Spec2Model ----------------------------
(***************************************************************************)
(* Model of file-tags/read_tags.py: the main script, the directory and     *)
(* file tracklist printers and the tag normalisation they perform.         *)
(*                                                                         *)
(* Text is modelled as a sequence of Unicode code points, bytes as a       *)
(* sequence of numbers 0..255, so that the regular expression, the         *)
(* latin-1/utf-8 round trip, the line splitting and the sorting of paths   *)
(* are computed character by character as Python computes them.            *)
(***************************************************************************)
EXTENDS Integers, Sequences, FiniteSets, TLC

(***************************************************************************)
(* Bounds of the model.                                                    *)
(***************************************************************************)
MaxArgs == 2      \* command-line arguments per run
MaxEnvLen == 2    \* characters in the environment variable's value
MaxTagLen == 3    \* characters in one tag value
MaxVals == 2      \* values in a multi-valued tag
MaxMinutes == 2   \* whole minutes of the durations tried: 0 .. MaxMinutes

(***************************************************************************)
(* Constants of read_tags.py, lines 46-92.                                 *)
(***************************************************************************)
ELLIPSIS == <<8230>>
FIRST_INDEX == 0
MISSING_TAG_PLACEHOLDER == <<40>> \o ELLIPSIS \o <<41>>
MSG_HIT_ENTER == "Please hit enter to close the window: "
RC_OK == 0
SECONDS_PER_MINUTE == 60
SEPARATOR == <<32, 47, 32>>
TAG_TRACK_NUMBER == "TRACKNUMBER"
TAG_ARTIST == "ARTIST"
TAG_TITLE == "TITLE"
TAG_LENGTH == "length"
REQUIRED_TAGS == <<TAG_TRACK_NUMBER, TAG_ARTIST, TAG_TITLE>>

(***************************************************************************)
(* Python values that are not text.                                        *)
(***************************************************************************)
None == [none |-> TRUE]
Raised(exc) == [raised |-> TRUE, exc |-> exc]
Returned(v) == [raised |-> FALSE, value |-> v]

(***************************************************************************)
(* The sequences of at most n elements of S.                               *)
(***************************************************************************)
RECURSIVE SeqsUpTo(_, _)
SeqsUpTo(S, n) ==
    IF n = 0 THEN {<<>>}
    ELSE LET shorter == SeqsUpTo(S, n - 1)
         IN  shorter \cup {Append(s, x) : s \in {t \in shorter : Len(t) = n - 1}, x \in S}

(***************************************************************************)
(* PRX_TRACKS_TOTAL.sub(EMPTY, text), line 73 and lines 170-171: every     *)
(* match of '/.*' is deleted.  A match starts at a '/' and extends over    *)
(* all following characters that '.' matches, that is up to but not        *)
(* including the next line feed (the pattern is compiled without DOTALL).  *)
(***************************************************************************)
DotMatches(c) == c # 10

RECURSIVE SkipDotStar(_)
SkipDotStar(text) ==
    IF text = <<>> THEN <<>>
    ELSE IF DotMatches(Head(text)) THEN SkipDotStar(Tail(text))
    ELSE text

RECURSIVE PRX_TRACKS_TOTAL_sub(_)
PRX_TRACKS_TOTAL_sub(text) ==
    IF text = <<>> THEN <<>>
    ELSE IF Head(text) = 47 THEN PRX_TRACKS_TOTAL_sub(SkipDotStar(Tail(text)))
    ELSE <<Head(text)>> \o PRX_TRACKS_TOTAL_sub(Tail(text))

(***************************************************************************)
(* text.encode('latin-1'), line 104: one byte per character, and a         *)
(* UnicodeEncodeError when a character is above U+00FF.                    *)
(***************************************************************************)
encode_latin_1(text) ==
    IF \E i \in 1..Len(text) : text[i] > 255
    THEN Raised("UnicodeEncodeError")
    ELSE Returned(text)

(***************************************************************************)
(* bytes.decode('utf-8'), line 104: the strict decoder.  FirstChar gives   *)
(* the length and code point of the well-formed sequence the bytes start   *)
(* with (Unicode table 3-7: no overlong forms, no surrogates, nothing      *)
(* above U+10FFFF), or length 0 when they start with none.                 *)
(***************************************************************************)
InRange(b, lo, hi) == lo <= b /\ b <= hi
Byte(bytes, i) == IF i <= Len(bytes) THEN bytes[i] ELSE -1
Cont(bytes, i) == InRange(Byte(bytes, i), 128, 191)
Low6(bytes, i) == bytes[i] - 128

FirstChar(bytes) ==
    LET b1 == bytes[1]
        b2 == Byte(bytes, 2)
    IN  IF b1 < 128 THEN [len |-> 1, cp |-> b1]
        ELSE IF InRange(b1, 194, 223) /\ Cont(bytes, 2)
        THEN [len |-> 2, cp |-> (b1 - 192) * 64 + Low6(bytes, 2)]
        ELSE IF /\ InRange(b1, 224, 239) /\ Cont(bytes, 2) /\ Cont(bytes, 3)
                /\ (b1 = 224 => b2 >= 160)
                /\ (b1 = 237 => b2 <= 159)
        THEN [len |-> 3,
              cp |-> (b1 - 224) * 4096 + Low6(bytes, 2) * 64 + Low6(bytes, 3)]
        ELSE IF /\ InRange(b1, 240, 244)
                /\ Cont(bytes, 2) /\ Cont(bytes, 3) /\ Cont(bytes, 4)
                /\ (b1 = 240 => b2 >= 144)
                /\ (b1 = 244 => b2 <= 143)
        THEN [len |-> 4,
              cp |-> (b1 - 240) * 262144 + Low6(bytes, 2) * 4096
                     + Low6(bytes, 3) * 64 + Low6(bytes, 4)]
        ELSE [len |-> 0, cp |-> 0]

RECURSIVE decode_utf_8(_)
decode_utf_8(bytes) ==
    IF bytes = <<>> THEN Returned(<<>>)
    ELSE LET first == FirstChar(bytes)
         IN  IF first.len = 0 THEN Raised("UnicodeDecodeError")
             ELSE LET rest == decode_utf_8(SubSeq(bytes, first.len + 1, Len(bytes)))
                  IN  IF rest.raised THEN rest
                      ELSE Returned(<<first.cp>> \o rest.value)

(***************************************************************************)
(* __avoid_latin_1, lines 100-104.                                         *)
(***************************************************************************)
avoid_latin_1(text) ==
    LET encoded == encode_latin_1(text)
    IN  IF encoded.raised THEN encoded ELSE decode_utf_8(encoded.value)

(***************************************************************************)
(* int(seconds), line 109.  A duration is a sign, a whole number of        *)
(* seconds and possibly a fraction; int() truncates towards zero.          *)
(***************************************************************************)
Seconds(whole, fraction) == [negative |-> FALSE, whole |-> whole, fraction |-> fraction]
int(seconds) == IF seconds.negative THEN 0 - seconds.whole ELSE seconds.whole

(***************************************************************************)
(* '{0:02d}'.format(n), line 86: the decimal digits of n, after a '-' when *)
(* n is negative, padded with zeros to a width of two.                     *)
(***************************************************************************)
RECURSIVE Digits(_)
Digits(n) ==
    IF n < 10 THEN <<48 + n>>
    ELSE Append(Digits(n \div 10), 48 + (n % 10))

Format02d(n) ==
    IF n < 0 THEN <<45>> \o Digits(0 - n)
    ELSE IF n < 10 THEN <<48>> \o Digits(n)
    ELSE Digits(n)

(***************************************************************************)
(* audio_length, lines 107-110.  Python's divmod rounds the quotient down, *)
(* as \div and % do.                                                       *)
(***************************************************************************)
audio_length(seconds) ==
    LET _minutes == int(seconds) \div SECONDS_PER_MINUTE
        _seconds == int(seconds) % SECONDS_PER_MINUTE
    IN  Format02d(_minutes) \o <<58>> \o Format02d(_seconds)

(***************************************************************************)
(* SEPARATOR.join(fixed_tags), line 181.                                   *)
(***************************************************************************)
RECURSIVE SEPARATOR_join(_)
SEPARATOR_join(parts) ==
    IF parts = <<>> THEN <<>>
    ELSE IF Len(parts) = 1 THEN parts[1]
    ELSE parts[1] \o SEPARATOR \o SEPARATOR_join(Tail(parts))

(***************************************************************************)
(* The inner loop of print_file_tracklist, lines 173-179: a value whose    *)
(* repair raises a UnicodeError is appended as it is.                      *)
(***************************************************************************)
fixed_tag_part_dropping(tag_part) ==
    LET repaired == avoid_latin_1(tag_part)
    IN  IF repaired.raised THEN <<>> ELSE repaired.value

fixed_tag_part(tag_part) ==
    LET repaired == avoid_latin_1(tag_part)
    IN  IF repaired.raised THEN tag_part ELSE repaired.value

RECURSIVE fixed_tags(_)
fixed_tags(original_tag) ==
    IF original_tag = <<>> THEN <<>>
    ELSE <<fixed_tag_part(Head(original_tag))>> \o fixed_tags(Tail(original_tag))

(***************************************************************************)
(* The body of the loop over REQUIRED_TAGS, lines 159-182, for one tag.    *)
(* audio_tags is the reader's dict: a function whose domain holds the tags *)
(* the file has, so that a tag outside the domain is the KeyError.  A tag  *)
(* in the domain with an empty value list takes the else branch, where     *)
(* original_tag[FIRST_INDEX] raises an IndexError for TRACKNUMBER.         *)
(***************************************************************************)
required_tag(single_tag, audio_tags) ==
    IF single_tag \notin DOMAIN audio_tags
    THEN [raised |-> FALSE, value |-> MISSING_TAG_PLACEHOLDER, missing |-> TRUE]
    ELSE LET original_tag == audio_tags[single_tag]
         IN  IF single_tag = TAG_TRACK_NUMBER
             THEN IF Len(original_tag) < FIRST_INDEX + 1
                  THEN Raised("IndexError")
                  ELSE [raised |-> FALSE,
                        value |-> PRX_TRACKS_TOTAL_sub(original_tag[FIRST_INDEX + 1]),
                        missing |-> FALSE]
             ELSE [raised |-> FALSE,
                   value |-> SEPARATOR_join(fixed_tags(original_tag)),
                   missing |-> FALSE]

(***************************************************************************)
(* The loop over REQUIRED_TAGS, lines 156-183, from its i-th tag on.  It   *)
(* ends with the exception that left it, or with the output_tags and       *)
(* missing_tags it built.                                                  *)
(***************************************************************************)
RECURSIVE required_tags_loop(_, _, _, _)
required_tags_loop(audio_tags, i, output_tags, missing_tags) ==
    IF i > Len(REQUIRED_TAGS)
    THEN [raised |-> FALSE, output_tags |-> output_tags, missing_tags |-> missing_tags]
    ELSE LET single_tag == REQUIRED_TAGS[i]
             field == required_tag(single_tag, audio_tags)
         IN  IF field.raised THEN field
             ELSE required_tags_loop(
                      audio_tags, i + 1,
                      (single_tag :> field.value) @@ output_tags,
                      IF field.missing THEN Append(missing_tags, single_tag)
                      ELSE missing_tags)

(***************************************************************************)
(* Lines 184-188: the length, or the AttributeError of a handle that has   *)
(* no length attribute.                                                    *)
(***************************************************************************)
with_length(audio_data, looped) ==
    IF TAG_LENGTH \in DOMAIN audio_data
    THEN [looped EXCEPT
             !.output_tags = (TAG_LENGTH :> audio_length(audio_data[TAG_LENGTH])) @@ @]
    ELSE [looped EXCEPT
             !.output_tags = (TAG_LENGTH :> ELLIPSIS) @@ @,
             !.missing_tags = Append(@, TAG_LENGTH)]

(***************************************************************************)
(* The else branch of print_file_tracklist up to the warning, lines        *)
(* 156-188.                                                                *)
(***************************************************************************)
read_tags(audio_data) ==
    LET looped == required_tags_loop(audio_data.tags, 1, <<>>, <<>>)
    IN  IF looped.raised THEN looped ELSE with_length(audio_data, looped)

(***************************************************************************)
(* FS_TRACK.format(output_tags), lines 88-92 and 192:                      *)
(* '{TRACKNUMBER}. {TITLE} - {ARTIST} ({length})' with an en dash.         *)
(***************************************************************************)
FS_TRACK_format(output_tags) ==
    output_tags[TAG_TRACK_NUMBER] \o <<46, 32>> \o output_tags[TAG_TITLE]
        \o <<32, 8211, 32>> \o output_tags[TAG_ARTIST]
        \o <<32, 40>> \o output_tags[TAG_LENGTH] \o <<41>>

(***************************************************************************)
(* The file system the run sees, as absolute paths.  The working directory *)
(* /w holds the files f and t.x and the directories d and '*'; d holds     *)
(* a.x, b.x, c (no dot in its name), .h.x (hidden) and the directory s.d,  *)
(* which holds e.x; '*' holds g.x.                                         *)
(***************************************************************************)
getcwd == <<47, 119>>
Directories ==
    { getcwd,
      getcwd \o <<47, 100>>,
      getcwd \o <<47, 42>>,
      getcwd \o <<47, 100, 47, 115, 46, 100>> }
RegularFiles ==
    { getcwd \o <<47, 102>>,
      getcwd \o <<47, 116, 46, 120>>,
      getcwd \o <<47, 100, 47, 97, 46, 120>>,
      getcwd \o <<47, 100, 47, 98, 46, 120>>,
      getcwd \o <<47, 100, 47, 99>>,
      getcwd \o <<47, 100, 47, 46, 104, 46, 120>>,
      getcwd \o <<47, 100, 47, 115, 46, 100, 47, 101, 46, 120>>,
      getcwd \o <<47, 42, 47, 103, 46, 120>> }

(***************************************************************************)
(* os.path, as the script uses it on a POSIX system.                       *)
(***************************************************************************)
isabs(path) == path # <<>> /\ path[1] = 47
abspath(path) == IF isabs(path) THEN path ELSE getcwd \o <<47>> \o path
isdir(path) == path # <<>> /\ abspath(path) \in Directories
isfile(path) == path # <<>> /\ abspath(path) \in RegularFiles
join(a, b) ==
    IF isabs(b) THEN b
    ELSE IF a = <<>> \/ a[Len(a)] = 47 THEN a \o b
    ELSE a \o <<47>> \o b

RECURSIVE basename(_)
basename(path) ==
    IF \A i \in 1..Len(path) : path[i] # 47 THEN path
    ELSE basename(Tail(path))

RECURSIVE split_path(_, _)
split_path(path, component) ==
    IF path = <<>> THEN <<component>>
    ELSE IF Head(path) = 47 THEN <<component>> \o split_path(Tail(path), <<>>)
    ELSE split_path(Tail(path), Append(component, Head(path)))

(***************************************************************************)
(* escape_for_glob, lines 113-123: each of '*', '?' and '[' is wrapped in  *)
(* square brackets.  os.path.splitdrive gives an empty drive on POSIX.     *)
(***************************************************************************)
GlobMagic(c) == c \in {42, 63, 91}

RECURSIVE escape_for_glob(_)
escape_for_glob(pathname) ==
    IF pathname = <<>> THEN <<>>
    ELSE IF GlobMagic(Head(pathname))
    THEN <<91, Head(pathname), 93>> \o escape_for_glob(Tail(pathname))
    ELSE <<Head(pathname)>> \o escape_for_glob(Tail(pathname))

(***************************************************************************)
(* glob.glob, line 131, as far as the script's patterns need it: '*', '?', *)
(* and a bracketed single character; a name starting with a dot is matched *)
(* only by a pattern component that starts with a dot; the matching is     *)
(* done path component by path component, and a match has the form of the  *)
(* pattern (relative to the working directory, or absolute).               *)
(***************************************************************************)
RECURSIVE fnmatch(_, _)
fnmatch(name, pat) ==
    IF pat = <<>> THEN name = <<>>
    ELSE IF pat[1] = 42
    THEN fnmatch(name, Tail(pat)) \/ (name # <<>> /\ fnmatch(Tail(name), pat))
    ELSE IF name = <<>> THEN FALSE
    ELSE IF pat[1] = 63 THEN fnmatch(Tail(name), Tail(pat))
    ELSE IF pat[1] = 91 /\ Len(pat) >= 3 /\ pat[3] = 93
    THEN name[1] = pat[2] /\ fnmatch(Tail(name), SubSeq(pat, 4, Len(pat)))
    ELSE name[1] = pat[1] /\ fnmatch(Tail(name), Tail(pat))

component_matches(name, pat) ==
    /\ fnmatch(name, pat)
    /\ (name # <<>> /\ name[1] = 46) => (pat # <<>> /\ pat[1] = 46)

path_matches(path, pattern) ==
    LET names == split_path(path, <<>>)
        pats == split_path(pattern, <<>>)
    IN  /\ Len(names) = Len(pats)
        /\ \A i \in 1..Len(names) : component_matches(names[i], pats[i])

relpath(path) == SubSeq(path, Len(getcwd) + 2, Len(path))

glob_glob(pattern) ==
    LET existing == (Directories \cup RegularFiles) \ {getcwd}
        shown == IF isabs(pattern) THEN existing ELSE {relpath(p) : p \in existing}
    IN  {p \in shown : path_matches(p, pattern)}

(***************************************************************************)
(* sorted(), line 131: the order of Python's text, code point by code      *)
(* point, a proper prefix first.                                           *)
(***************************************************************************)
RECURSIVE text_less(_, _)
text_less(a, b) ==
    IF b = <<>> THEN FALSE
    ELSE IF a = <<>> THEN TRUE
    ELSE IF Head(a) # Head(b) THEN Head(a) < Head(b)
    ELSE text_less(Tail(a), Tail(b))

sorted(list) == SortSeq(list, text_less)

Enumerations(S) ==
    {order \in [1..Cardinality(S) -> S] :
        \A i, j \in 1..Cardinality(S) : order[i] = order[j] => i = j}

(***************************************************************************)
(* The list print_directory_tracklist iterates over, lines 131-132, when   *)
(* glob.glob gives its matches in the given order.                         *)
(***************************************************************************)
ALL_FILES == <<42, 46, 42>>
directory_pattern(given_directory) == join(escape_for_glob(given_directory), ALL_FILES)
directory_files(globbed) == sorted(globbed)

(***************************************************************************)
(* str.splitlines(), line 229: the text is cut at every line boundary, a   *)
(* carriage return followed by a line feed being one boundary; no empty    *)
(* line is added after a final boundary.                                   *)
(***************************************************************************)
LineBoundaries == {10, 11, 12, 13, 28, 29, 30, 133, 8232, 8233}
LineBoundary(c) == c \in LineBoundaries

RECURSIVE splitlines(_, _)
splitlines(text, line) ==
    IF text = <<>> THEN IF line = <<>> THEN <<>> ELSE <<line>>
    ELSE IF Head(text) = 13 /\ Len(text) >= 2 /\ text[2] = 10
    THEN <<line>> \o splitlines(SubSeq(text, 3, Len(text)), <<>>)
    ELSE IF LineBoundary(Head(text))
    THEN <<line>> \o splitlines(Tail(text), <<>>)
    ELSE splitlines(Tail(text), Append(line, Head(text)))

(***************************************************************************)
(* The generator of lines 228-230: the lines that are not empty.           *)
(***************************************************************************)
selected_paths(value) == SelectSeq(splitlines(value, <<>>), LAMBDA argument : argument # <<>>)

NAUTILUS_SCRIPT_SELECTED_FILE_PATHS == "NAUTILUS_SCRIPT_SELECTED_FILE_PATHS"

(***************************************************************************)
(* shortened_filename, lines 140-141.                                      *)
(***************************************************************************)
shortened_filename(given_file) == join(ELLIPSIS, basename(given_file))

(***************************************************************************)
(* The state of a run.                                                     *)
(*   argv, environ, disk   what the run is given: the command line, the    *)
(*                         environment and, per regular file, what the     *)
(*                         metadata reader finds in it                     *)
(*   pc                    the position of the script                      *)
(*   ARGUMENTS_LIST, BEFORE_EXIT_MESSAGE, next_argument                    *)
(*                         the main script's state, lines 221-249          *)
(*   single_files          what is left of the list that                   *)
(*                         print_directory_tracklist iterates over         *)
(*   given_file, audio_data, output_tags, missing_tags                     *)
(*                         the locals of print_file_tracklist              *)
(*   caller                where print_file_tracklist returns to           *)
(*   handles               the reader's handles that are open              *)
(*   stdout, log           the lines printed and the entries logged        *)
(*   prompted, exit_status the prompt of line 248 and how the process ended*)
(*   calls, listed         history: the calls of print_file_tracklist and  *)
(*                         of print_directory_tracklist, in order          *)
(***************************************************************************)
VARIABLES argv, environ, disk, pc, ARGUMENTS_LIST, BEFORE_EXIT_MESSAGE,
          next_argument, single_files, given_file, audio_data, output_tags,
          missing_tags, caller, handles, stdout, log, prompted, exit_status,
          calls, listed

vars == <<argv, environ, disk, pc, ARGUMENTS_LIST, BEFORE_EXIT_MESSAGE,
          next_argument, single_files, given_file, audio_data, output_tags,
          missing_tags, caller, handles, stdout, log, prompted, exit_status,
          calls, listed>>

given == <<argv, environ, disk>>
main_state == <<ARGUMENTS_LIST, BEFORE_EXIT_MESSAGE, next_argument>>
file_locals == <<given_file, audio_data, output_tags, missing_tags, caller>>
output == <<stdout, log>>
ending == <<prompted, exit_status>>

(***************************************************************************)
(* What the metadata reader finds in a file: nothing it supports, or tags  *)
(* (a dict from tag names to value lists) and possibly a length.           *)
(***************************************************************************)
Unsupported == [unsupported |-> TRUE]
Audio(tags, length) == [tags |-> tags, length |-> length]
AudioWithoutLength(tags) == [tags |-> tags]
Tags(track, artist, title) ==
    (TAG_TRACK_NUMBER :> track) @@ (TAG_ARTIST :> artist) @@ (TAG_TITLE :> title)
Without(tags, tag) == [t \in (DOMAIN tags) \ {tag} |-> tags[t]]

GoodAudio == Audio(Tags(<<<<51, 47, 49, 50>>>>, <<<<65>>>>, <<<<83>>>>), Seconds(185, FALSE))
UntitledAudio == AudioWithoutLength(Without(GoodAudio.tags, TAG_TITLE))
EmptyTrackAudio == Audio(Tags(<<>>, <<<<65>>>>, <<<<83>>>>), Seconds(59, FALSE))

(***************************************************************************)
(* taglib.File(given_file), line 143: a handle on what the file holds, or  *)
(* the OSError for a path that is no regular file or holds nothing the     *)
(* reader supports.                                                        *)
(***************************************************************************)
taglib_File(path, files) ==
    IF isfile(path) /\ "tags" \in DOMAIN files[abspath(path)]
    THEN Returned(files[abspath(path)])
    ELSE Raised("OSError")

(***************************************************************************)
(* The runs tried.                                                         *)
(***************************************************************************)
File_f == <<102>>
Directory_d == <<100>>
File_a == getcwd \o <<47, 100, 47, 97, 46, 120>>
File_b == getcwd \o <<47, 100, 47, 98, 46, 120>>
CommandLinePaths == {File_f, Directory_d}
EnvironmentCharacters == {42, 10, 13}
RunContents == {Unsupported, GoodAudio, EmptyTrackAudio}

DefaultDisk == [p \in RegularFiles |-> IF p = File_b THEN UntitledAudio ELSE GoodAudio]
Environments ==
    {<<>>} \cup {NAUTILUS_SCRIPT_SELECTED_FILE_PATHS :> value :
                    value \in SeqsUpTo(EnvironmentCharacters, MaxEnvLen)}

Started ==
    /\ pc = "environ"
    /\ ARGUMENTS_LIST = argv
    /\ BEFORE_EXIT_MESSAGE = None
    /\ next_argument = 1
    /\ single_files = <<>>
    /\ given_file = None
    /\ audio_data = None
    /\ output_tags = None
    /\ missing_tags = None
    /\ caller = None
    /\ handles = {}
    /\ stdout = <<>>
    /\ log = <<>>
    /\ prompted = FALSE
    /\ exit_status = None
    /\ calls = <<>>
    /\ listed = <<>>

Init ==
    /\ argv \in SeqsUpTo(CommandLinePaths, MaxArgs)
    /\ environ \in Environments
    /\ \E f, a \in RunContents :
          disk = [DefaultDisk EXCEPT ![abspath(File_f)] = f, ![File_a] = a]
    /\ Started

\* As MainEnviron, with the message only for a value that is not empty.
MainEnvironUnlessEmpty ==
    /\ pc = "environ"
    /\ IF NAUTILUS_SCRIPT_SELECTED_FILE_PATHS \in DOMAIN environ
       THEN /\ ARGUMENTS_LIST' = ARGUMENTS_LIST
                   \o selected_paths(environ[NAUTILUS_SCRIPT_SELECTED_FILE_PATHS])
            /\ BEFORE_EXIT_MESSAGE' =
                   (IF environ[NAUTILUS_SCRIPT_SELECTED_FILE_PATHS] = <<>> THEN ""
                    ELSE MSG_HIT_ENTER)
       ELSE /\ ARGUMENTS_LIST' = ARGUMENTS_LIST
            /\ BEFORE_EXIT_MESSAGE' = ""
    /\ pc' = "main"
    /\ UNCHANGED <<given, next_argument, single_files, file_locals, handles,
                   output, ending, calls, listed>>

(***************************************************************************)
(* Lines 223-235: the paths selected in Nautilus are added to the          *)
(* arguments; a KeyError (the variable is not set) leaves the list as it   *)
(* is and the message empty.                                               *)
(***************************************************************************)
MainEnviron ==
    /\ pc = "environ"
    /\ IF NAUTILUS_SCRIPT_SELECTED_FILE_PATHS \in DOMAIN environ
       THEN /\ ARGUMENTS_LIST' = ARGUMENTS_LIST
                   \o selected_paths(environ[NAUTILUS_SCRIPT_SELECTED_FILE_PATHS])
            /\ BEFORE_EXIT_MESSAGE' = MSG_HIT_ENTER
       ELSE /\ ARGUMENTS_LIST' = ARGUMENTS_LIST
            /\ BEFORE_EXIT_MESSAGE' = ""
    /\ pc' = "main"
    /\ UNCHANGED <<given, next_argument, single_files, file_locals, handles,
                   output, ending, calls, listed>>

(***************************************************************************)
(* print_directory_tracklist up to its loop, lines 130-132: the matches of *)
(* the pattern, however glob.glob orders them, sorted.                     *)
(***************************************************************************)
print_directory_tracklist(given_directory) ==
    /\ \E globbed \in Enumerations(glob_glob(directory_pattern(given_directory))) :
          single_files' = directory_files(globbed)
    /\ listed' = Append(listed, given_directory)
    /\ pc' = "directory"

(***************************************************************************)
(* The call of print_file_tracklist, lines 137-141.                        *)
(***************************************************************************)
print_file_tracklist(file, from) ==
    /\ given_file' = file
    /\ caller' = from
    /\ pc' = "file"

(***************************************************************************)
(* Lines 236-243: the next argument is a directory.                        *)
(***************************************************************************)
MainDirectory ==
    /\ pc = "main"
    /\ next_argument <= Len(ARGUMENTS_LIST)
    /\ isdir(ARGUMENTS_LIST[next_argument])
    /\ print_directory_tracklist(ARGUMENTS_LIST[next_argument])
    /\ next_argument' = next_argument + 1
    /\ UNCHANGED <<given, ARGUMENTS_LIST, BEFORE_EXIT_MESSAGE, file_locals,
                   handles, output, ending, calls>>

(***************************************************************************)
(* Lines 236-243: the next argument is no directory.                       *)
(***************************************************************************)
MainFile ==
    /\ pc = "main"
    /\ next_argument <= Len(ARGUMENTS_LIST)
    /\ ~isdir(ARGUMENTS_LIST[next_argument])
    /\ print_file_tracklist(ARGUMENTS_LIST[next_argument], "main")
    /\ next_argument' = next_argument + 1
    /\ UNCHANGED <<given, ARGUMENTS_LIST, BEFORE_EXIT_MESSAGE, single_files,
                   audio_data, output_tags, missing_tags, handles, output,
                   ending, calls, listed>>

(***************************************************************************)
(* Lines 244-245: without arguments, the working directory.                *)
(***************************************************************************)
MainWorkingDirectory ==
    /\ pc = "main"
    /\ ARGUMENTS_LIST = <<>>
    /\ next_argument = 1
    /\ print_directory_tracklist(getcwd)
    /\ next_argument' = next_argument + 1
    /\ UNCHANGED <<given, ARGUMENTS_LIST, BEFORE_EXIT_MESSAGE, file_locals,
                   handles, output, ending, calls>>

\* As DirectoryFile, with the entry classified as the main loop classifies
\* its arguments.
DirectoryFileClassified ==
    /\ pc = "directory"
    /\ single_files # <<>>
    /\ IF isdir(Head(single_files))
       THEN /\ \E globbed \in Enumerations(
                       glob_glob(directory_pattern(Head(single_files)))) :
                  single_files' = directory_files(globbed) \o Tail(single_files)
            /\ listed' = Append(listed, Head(single_files))
            /\ UNCHANGED <<pc, given_file, caller>>
       ELSE /\ print_file_tracklist(Head(single_files), "directory")
            /\ single_files' = Tail(single_files)
            /\ UNCHANGED listed
    /\ UNCHANGED <<given, main_state, audio_data, output_tags, missing_tags,
                   handles, output, ending, calls>>

(***************************************************************************)
(* The loop of print_directory_tracklist, lines 131-133: every entry goes  *)
(* to print_file_tracklist.                                                *)
(***************************************************************************)
DirectoryFile ==
    /\ pc = "directory"
    /\ single_files # <<>>
    /\ print_file_tracklist(Head(single_files), "directory")
    /\ single_files' = Tail(single_files)
    /\ UNCHANGED <<given, main_state, audio_data, output_tags, missing_tags,
                   handles, output, ending, calls, listed>>

DirectoryReturn ==
    /\ pc = "directory"
    /\ single_files = <<>>
    /\ pc' = "main"
    /\ UNCHANGED <<given, main_state, single_files, file_locals, handles,
                   output, ending, calls, listed>>

(***************************************************************************)
(* Log entries, lines 147-150 and 190-191.  The error entry holds the      *)
(* reader's message, which names the path; the others name the file in     *)
(* its shortened form.                                                     *)
(***************************************************************************)
logging_error(file) == [level |-> "ERROR", text |-> file, missing |-> <<>>]
logging_info(file) == [level |-> "INFO", text |-> shortened_filename(file), missing |-> <<>>]
logging_warning(file, missing) ==
    [level |-> "WARNING", text |-> shortened_filename(file), missing |-> missing]

Call(file, opened) ==
    [given_file |-> file, from_directory |-> caller = "directory", opened |-> opened,
     log_before |-> Len(log), stdout_before |-> Len(stdout)]

(***************************************************************************)
(* Lines 142-151: the reader raises an OSError.  The error is logged, the  *)
(* note as well when the path is a regular file, and the function returns. *)
(***************************************************************************)
FileRejected ==
    /\ pc = "file"
    /\ taglib_File(given_file, disk).raised
    /\ log' = log \o <<logging_error(given_file)>>
                  \o (IF isfile(given_file) THEN <<logging_info(given_file)>> ELSE <<>>)
    /\ calls' = Append(calls, Call(given_file, FALSE))
    /\ pc' = caller
    /\ UNCHANGED <<given, main_state, single_files, file_locals, handles,
                   stdout, ending, listed>>

(***************************************************************************)
(* Line 143: the reader opens the file; audio_data holds the handle.       *)
(***************************************************************************)
FileOpened ==
    /\ pc = "file"
    /\ ~taglib_File(given_file, disk).raised
    /\ LET handle == Len(calls) + 1
       IN  /\ audio_data' = [handle |-> handle,
                             data |-> taglib_File(given_file, disk).value]
           /\ handles' = handles \cup {handle}
    /\ calls' = Append(calls, Call(given_file, TRUE))
    /\ pc' = "tags"
    /\ UNCHANGED <<given, main_state, single_files, given_file, output_tags,
                   missing_tags, caller, output, ending, listed>>

(***************************************************************************)
(* Lines 156-193: the tags are read, the warning is logged when tags are   *)
(* missing, the line is printed and the function returns.  Nothing closes  *)
(* the handle: it stays open until the interpreter finalizes the object    *)
(* that audio_data held, which an interpreter that counts references does  *)
(* when the function returns and another one does later.                   *)
(***************************************************************************)
FilePrinted ==
    /\ pc = "tags"
    /\ LET read == read_tags(audio_data.data)
       IN  /\ ~read.raised
           /\ output_tags' = read.output_tags
           /\ missing_tags' = read.missing_tags
           /\ log' = IF read.missing_tags # <<>>
                     THEN Append(log, logging_warning(given_file, read.missing_tags))
                     ELSE log
           /\ stdout' = Append(stdout, FS_TRACK_format(read.output_tags))
    /\ \E finalized_at_return \in BOOLEAN :
          handles' = IF finalized_at_return THEN handles \ {audio_data.handle}
                     ELSE handles
    /\ audio_data' = None
    /\ pc' = caller
    /\ UNCHANGED <<given, main_state, single_files, given_file, caller,
                   ending, calls, listed>>

(***************************************************************************)
(* Line 171: original_tag[FIRST_INDEX] raises an IndexError that nothing   *)
(* catches.  The interpreter prints the traceback and the process ends     *)
(* with status 1.                                                          *)
(***************************************************************************)
FileRaised ==
    /\ pc = "tags"
    /\ read_tags(audio_data.data).raised
    /\ exit_status' = 1
    /\ pc' = "raised"
    /\ UNCHANGED <<given, main_state, single_files, file_locals, handles,
                   output, prompted, calls, listed>>

(***************************************************************************)
(* The interpreter finalizes the reader objects that nothing refers to any *)
(* more, which closes their handles, at a time of its choosing.            *)
(***************************************************************************)
Referenced == IF audio_data = None THEN {} ELSE {audio_data.handle}

Finalize ==
    /\ handles \ Referenced # {}
    /\ handles' = handles \cap Referenced
    /\ UNCHANGED <<given, pc, main_state, single_files, file_locals, output,
                   ending, calls, listed>>

(***************************************************************************)
(* Lines 247-249: the prompt, when there is a message, and the exit.       *)
(***************************************************************************)
MainExit ==
    /\ pc = "main"
    /\ next_argument > Len(ARGUMENTS_LIST)
    /\ ARGUMENTS_LIST = <<>> => next_argument > 1
    /\ prompted' = (BEFORE_EXIT_MESSAGE # "")
    /\ exit_status' = RC_OK
    /\ pc' = "exited"
    /\ UNCHANGED <<given, main_state, single_files, file_locals, handles,
                   output, calls, listed>>

Next ==
    \/ MainEnviron
    \/ MainDirectory
    \/ MainFile
    \/ MainWorkingDirectory
    \/ DirectoryFile
    \/ DirectoryReturn
    \/ FileRejected
    \/ FileOpened
    \/ FilePrinted
    \/ FileRaised
    \/ Finalize
    \/ MainExit

Spec == Init /\ [][Next]_vars

(***************************************************************************)
(* The script run on the one file f, for every content of f out of:        *)
(* every TRACKNUMBER list with a first value of at most MaxTagLen          *)
(* characters out of '3', '/' and line feed; every ARTIST and TITLE list   *)
(* of one value of at most MaxTagLen characters, or of at most MaxVals     *)
(* sample values; the durations of up to MaxMinutes minutes, an hour and   *)
(* a hundred minutes, with and without a fraction; each tag and the length *)
(* also absent.                                                            *)
(***************************************************************************)
AllPresent == {TAG_TRACK_NUMBER, TAG_ARTIST, TAG_TITLE, TAG_LENGTH}
MakeAudio(present, track, artist, title, length) ==
    LET all == Tags(track, artist, title)
        tags == [t \in (DOMAIN all) \cap present |-> all[t]]
    IN  IF TAG_LENGTH \in present THEN Audio(tags, length)
        ELSE AudioWithoutLength(tags)

TrackCharacters == {51, 47, 10}
LaterValues == {<<57>>, <<57, 47, 57>>}
TrackLists ==
    {<<>>} \cup {<<first>> \o later : first \in SeqsUpTo(TrackCharacters, MaxTagLen),
                                      later \in SeqsUpTo(LaterValues, MaxVals - 1)}
TextCharacters == {65, 195, 169, 226, 130, 172, 8364}
TextSamples == {<<65>>, <<195, 169>>, <<233>>, <<8364>>, MISSING_TAG_PLACEHOLDER}
TextLists ==
    {<<value>> : value \in SeqsUpTo(TextCharacters, MaxTagLen)}
        \cup SeqsUpTo(TextSamples, MaxVals)
Durations ==
    {Seconds(SECONDS_PER_MINUTE * m + s, fraction) :
        m \in (0..MaxMinutes) \cup {60, 100}, s \in {0, 5, 59}, fraction \in BOOLEAN}

OneTrack == <<<<51>>>>
OneArtist == <<<<65>>>>
OneTitle == <<<<83>>>>
OneLength == Seconds(125, FALSE)

FileContents ==
    {Unsupported}
    \cup {MakeAudio(AllPresent \ absent, track, OneArtist, OneTitle, OneLength) :
            track \in TrackLists, absent \in SUBSET {TAG_TRACK_NUMBER, TAG_ARTIST}}
    \cup {MakeAudio(AllPresent \ absent, OneTrack, artist, title, OneLength) :
            artist \in TextLists, title \in {OneTitle, <<>>},
            absent \in SUBSET {TAG_ARTIST, TAG_TITLE}}
    \cup {MakeAudio(AllPresent \ absent, OneTrack, OneArtist, title, OneLength) :
            title \in TextLists, absent \in SUBSET {TAG_TITLE}}
    \cup {MakeAudio(AllPresent \ absent, track, OneArtist, OneTitle, length) :
            track \in {OneTrack, <<>>}, length \in Durations,
            absent \in SUBSET {TAG_TRACK_NUMBER, TAG_TITLE, TAG_LENGTH}}

InitFile ==
    /\ argv = <<File_f>>
    /\ environ = <<>>
    /\ \E f \in FileContents : disk = [DefaultDisk EXCEPT ![abspath(File_f)] = f]
    /\ Started

NextFile ==
    \/ MainEnviron
    \/ MainFile
    \/ FileRejected
    \/ FileOpened
    \/ FilePrinted
    \/ FileRaised
    \/ Finalize
    \/ MainExit

SpecFile == InitFile /\ [][NextFile]_vars

(***************************************************************************)
(*                 Properties of the run on one file                       *)
(***************************************************************************)
TheFile == disk[abspath(File_f)]

\* print_file_tracklist has opened the file and has ended, by returning or
\* by an exception.
FileEnded ==
    /\ pc \in {"main", "exited", "raised"}
    /\ Len(calls) = 1
    /\ calls[1].opened

\* print_file_tracklist has opened the file and has returned.
FileReturned == FileEnded /\ pc # "raised"

ValueCount(tag) == IF tag \in DOMAIN TheFile.tags THEN Len(TheFile.tags[tag]) ELSE 0
Reported(tag) == \E i \in 1..Len(missing_tags) : missing_tags[i] = tag
WarningLogged ==
    \E i \in 1..Len(log) :
        /\ log[i].level = "WARNING"
        /\ log[i].text = <<8230, 47, 102>>
        /\ log[i].missing = missing_tags

(***************************************************************************)
(* C3: for each of TRACKNUMBER, ARTIST and TITLE of a file the reader has  *)
(* opened, a value list with zero values gives the placeholder '(...)' and *)
(* the tag is reported missing, a value list with one or more values gives *)
(* a field that is not the placeholder and the tag is not reported; in     *)
(* both cases the output mapping holds all four fields and a line is       *)
(* printed.                                                                *)
(***************************************************************************)
C3_ZeroValuesGivePlaceholder ==
    FileEnded =>
        /\ pc # "raised"
        /\ DOMAIN output_tags = {TAG_TRACK_NUMBER, TAG_ARTIST, TAG_TITLE, TAG_LENGTH}
        /\ Len(stdout) = 1
        /\ \A i \in 1..Len(REQUIRED_TAGS) :
              LET tag == REQUIRED_TAGS[i]
              IN  IF ValueCount(tag) = 0
                  THEN output_tags[tag] = <<40, 8230, 41>> /\ Reported(tag)
                  ELSE output_tags[tag] # <<40, 8230, 41>> /\ ~Reported(tag)

(***************************************************************************)
(* C4: for every file the reader has opened, the missing-tags report lists *)
(* exactly the fields that were missing, each once, in the order           *)
(* TRACKNUMBER, ARTIST, TITLE, LENGTH; the warning naming the file and     *)
(* those fields is logged if and only if the report is not empty; and the  *)
(* line is printed in both cases.                                          *)
(***************************************************************************)
FieldMissing(tag) ==
    IF tag = TAG_LENGTH THEN TAG_LENGTH \notin DOMAIN TheFile
    ELSE tag \notin DOMAIN TheFile.tags

C4_ReportListsMissingFields ==
    FileEnded =>
        /\ pc # "raised"
        /\ missing_tags = SelectSeq(<<TAG_TRACK_NUMBER, TAG_ARTIST, TAG_TITLE, TAG_LENGTH>>,
                                    FieldMissing)
        /\ WarningLogged <=> missing_tags # <<>>
        /\ Len(log) = (IF missing_tags # <<>> THEN 1 ELSE 0)
        /\ Len(stdout) = 1

(***************************************************************************)
(* C5: for every TRACKNUMBER list with at least one value the track number *)
(* field is the first value up to its first '/', the whole first value     *)
(* when it holds no '/', whatever the later values are.                    *)
(***************************************************************************)
SlashAt(text) == {i \in 1..Len(text) : text[i] = 47}
BeforeFirstSlash(text) ==
    IF SlashAt(text) = {} THEN text
    ELSE SubSeq(text, 1, (CHOOSE i \in SlashAt(text) : \A j \in SlashAt(text) : i <= j) - 1)

C5_TrackNumberUpToFirstSlash ==
    (FileReturned /\ ValueCount(TAG_TRACK_NUMBER) >= 1) =>
        output_tags[TAG_TRACK_NUMBER] = BeforeFirstSlash(TheFile.tags[TAG_TRACK_NUMBER][1])

(***************************************************************************)
(* C6: for every file the reader has opened, a duration of s >= 0 seconds  *)
(* gives the length field 'M:S' where M is floor(s) div 60 and S is        *)
(* floor(s) mod 60 in decimal, each padded with zeros to two digits and no *)
(* further (minutes are not wrapped into hours); without a duration the    *)
(* field is the bare ellipsis, LENGTH is reported missing and the line is  *)
(* still printed.                                                          *)
(***************************************************************************)
RECURSIVE DecimalValue(_)
DecimalValue(digits) ==
    IF digits = <<>> THEN 0
    ELSE 10 * DecimalValue(SubSeq(digits, 1, Len(digits) - 1)) + (digits[Len(digits)] - 48)

IsTwoDigitDecimal(digits, n) ==
    /\ Len(digits) >= 2
    /\ \A i \in 1..Len(digits) : digits[i] \in 48..57
    /\ Len(digits) > 2 => digits[1] # 48
    /\ DecimalValue(digits) = n

IsLengthOf(field, floor_s) ==
    \E k \in 1..Len(field) :
        /\ field[k] = 58
        /\ IsTwoDigitDecimal(SubSeq(field, 1, k - 1), floor_s \div 60)
        /\ IsTwoDigitDecimal(SubSeq(field, k + 1, Len(field)), floor_s % 60)
        /\ Len(field) = k + 2

C6_LengthField ==
    FileEnded =>
        /\ pc # "raised"
        /\ Len(stdout) = 1
        /\ IF TAG_LENGTH \in DOMAIN TheFile
           THEN /\ IsLengthOf(output_tags[TAG_LENGTH], TheFile[TAG_LENGTH].whole)
                /\ ~Reported(TAG_LENGTH)
           ELSE /\ output_tags[TAG_LENGTH] = <<8230>>
                /\ Reported(TAG_LENGTH)

(***************************************************************************)
(* C8: for ARTIST and TITLE with one or more values the field is the       *)
(* values in their order, joined with ' / ', each value replaced by the    *)
(* text whose UTF-8 encoding the value is when read as latin-1 bytes, and  *)
(* kept as it is when there is no such text; a value that is kept is       *)
(* neither dropped nor moved, and nothing is logged for it.                *)
(***************************************************************************)
IsScalarValue(cp) == cp \in 0..1114111 /\ cp \notin 55296..57343

Utf8Encoded(cp) ==
    IF cp < 128 THEN <<cp>>
    ELSE IF cp < 2048 THEN <<192 + (cp \div 64), 128 + (cp % 64)>>
    ELSE IF cp < 65536
    THEN <<224 + (cp \div 4096), 128 + ((cp \div 64) % 64), 128 + (cp % 64)>>
    ELSE <<240 + (cp \div 262144), 128 + ((cp \div 4096) % 64),
           128 + ((cp \div 64) % 64), 128 + (cp % 64)>>

\* The code point a chunk of one to four bytes would stand for, going by its
\* length alone.
ChunkValue(chunk) ==
    IF Len(chunk) = 1 THEN chunk[1]
    ELSE IF Len(chunk) = 2 THEN (chunk[1] - 192) * 64 + (chunk[2] - 128)
    ELSE IF Len(chunk) = 3
    THEN (chunk[1] - 224) * 4096 + (chunk[2] - 128) * 64 + (chunk[3] - 128)
    ELSE (chunk[1] - 240) * 262144 + (chunk[2] - 128) * 4096
         + (chunk[3] - 128) * 64 + (chunk[4] - 128)

IsEncodedCharacter(chunk) ==
    /\ Len(chunk) \in 1..4
    /\ IsScalarValue(ChunkValue(chunk))
    /\ Utf8Encoded(ChunkValue(chunk)) = chunk

\* The ways to cut the bytes into chunks that each encode one character:
\* the sets of positions at which a chunk ends.
Cuts(bytes) ==
    {ends \in SUBSET (1..Len(bytes)) :
        /\ bytes # <<>> => Len(bytes) \in ends
        /\ \A e \in ends :
              LET before == {d \in ends : d < e}
                  start == IF before = {} THEN 1
                           ELSE 1 + CHOOSE d \in before : \A c \in before : c <= d
              IN  IsEncodedCharacter(SubSeq(bytes, start, e))}

TextOfCut(bytes, ends) ==
    LET Start(e) == LET before == {d \in ends : d < e}
                    IN  IF before = {} THEN 1
                        ELSE 1 + CHOOSE d \in before : \A c \in before : c <= d
        EndAt(k) == CHOOSE e \in ends : Cardinality({d \in ends : d <= e}) = k
    IN  [k \in 1..Cardinality(ends) |->
            ChunkValue(SubSeq(bytes, Start(EndAt(k)), EndAt(k)))]

Repaired(value) ==
    IF (\A i \in 1..Len(value) : value[i] <= 255) /\ Cuts(value) # {}
    THEN TextOfCut(value, CHOOSE ends \in Cuts(value) : TRUE)
    ELSE value

RECURSIVE JoinedWithSlash(_)
JoinedWithSlash(values) ==
    IF Len(values) = 1 THEN Repaired(values[1])
    ELSE JoinedWithSlash(SubSeq(values, 1, Len(values) - 1))
             \o <<32, 47, 32>> \o Repaired(values[Len(values)])

C8_ValuesRepairedAndJoined ==
    FileReturned =>
        /\ \A tag \in {TAG_ARTIST, TAG_TITLE} :
              ValueCount(tag) >= 1 =>
                  output_tags[tag] = JoinedWithSlash(TheFile.tags[tag])
        /\ \A i \in 1..Len(log) : log[i].level = "WARNING" /\ log[i].missing # <<>>

\* An ARTIST of two values, the first repaired, the second not repairable
\* and kept.
C8_Witness ==
    /\ FileReturned
    /\ TAG_ARTIST \in DOMAIN TheFile.tags
    /\ TheFile.tags[TAG_ARTIST] = <<<<195, 169>>, <<233>>>>
    /\ output_tags[TAG_ARTIST] = <<233, 32, 47, 32, 233>>
    /\ log = <<>>

(***************************************************************************)
(*                     Properties of the whole run                         *)
(***************************************************************************)
EnvironmentSet == NAUTILUS_SCRIPT_SELECTED_FILE_PATHS \in DOMAIN environ
EnvironmentValue == environ[NAUTILUS_SCRIPT_SELECTED_FILE_PATHS]

\* The maximal runs of characters outside `boundaries`, from left to right.
EntriesSplitAt(value, boundaries) ==
    LET Inside(i) == value[i] \notin boundaries
        starts == {i \in 1..Len(value) : Inside(i) /\ (i = 1 \/ ~Inside(i - 1))}
        EndOf(i) == CHOOSE j \in i..Len(value) :
                        /\ \A k \in i..j : Inside(k)
                        /\ (j = Len(value) \/ ~Inside(j + 1))
        StartAt(n) == CHOOSE i \in starts : Cardinality({h \in starts : h <= i}) = n
    IN  [n \in 1..Cardinality(starts) |-> SubSeq(value, StartAt(n), EndOf(StartAt(n)))]

\* The targets of the run: the command line, then the selected paths, and
\* the working directory when there is neither.
SelectedPaths ==
    IF EnvironmentSet THEN EntriesSplitAt(EnvironmentValue, LineBoundaries) ELSE <<>>
Targets ==
    IF argv \o SelectedPaths = <<>> THEN <<getcwd>> ELSE argv \o SelectedPaths

\* The entries of a directory that the pattern '*.*' stands for, and a set
\* of paths in ascending order.
NamesIn(directory) ==
    {SubSeq(p, Len(directory) + 2, Len(p)) :
        p \in {q \in Directories \cup RegularFiles :
                  /\ Len(q) > Len(directory) + 1
                  /\ SubSeq(q, 1, Len(directory) + 1) = directory \o <<47>>
                  /\ \A i \in (Len(directory) + 2)..Len(q) : q[i] # 47}}
EntriesOf(directory) ==
    {directory \o <<47>> \o name :
        name \in {n \in NamesIn(abspath(directory)) :
                     n[1] # 46 /\ \E i \in 1..Len(n) : n[i] = 46}}
Ascending(S) ==
    CHOOSE order \in Enumerations(S) :
        \A i, j \in 1..Cardinality(S) : i < j => text_less(order[i], order[j])

\* The files of the targets, one level deep: a target that is a directory
\* stands for its entries in ascending order, another target for itself.
RECURSIVE FilesOf(_)
FilesOf(targets) ==
    IF targets = <<>> THEN <<>>
    ELSE (IF isdir(Head(targets)) THEN Ascending(EntriesOf(Head(targets)))
          ELSE <<Head(targets)>>) \o FilesOf(Tail(targets))

CalledFiles == [i \in 1..Len(calls) |-> calls[i].given_file]
IsPrefix(a, b) == Len(a) <= Len(b) /\ a = SubSeq(b, 1, Len(a))
RunEnded == pc \in {"exited", "raised"}

\* What call i printed and logged.
StdoutAfter(i) == IF i < Len(calls) THEN calls[i + 1].stdout_before ELSE Len(stdout)
LogAfter(i) == IF i < Len(calls) THEN calls[i + 1].log_before ELSE Len(log)
PrintedBy(i) == SubSeq(stdout, calls[i].stdout_before + 1, StdoutAfter(i))
LoggedBy(i) == SubSeq(log, calls[i].log_before + 1, LogAfter(i))
Levels(entries) == [k \in 1..Len(entries) |-> entries[k].level]

(***************************************************************************)
(* C1: when the reader rejects a path, no line is printed for it, an error *)
(* is logged, the note 'file type probably not supported' is logged if and *)
(* only if the path is a regular file, every later path is still          *)
(* processed and the run ends with exit status 0.                          *)
(***************************************************************************)
C1_RejectedPathIsSkipped ==
    RunEnded =>
        \A i \in 1..Len(calls) :
            ~calls[i].opened =>
                /\ PrintedBy(i) = <<>>
                /\ Levels(LoggedBy(i)) =
                       (IF isfile(calls[i].given_file) THEN <<"ERROR", "INFO">>
                        ELSE <<"ERROR">>)
                /\ CalledFiles = FilesOf(Targets)
                /\ exit_status = 0

(***************************************************************************)
(* C2: the standard output of a run is one formatted line per file the     *)
(* reader has read, in the order of processing: the targets in the order   *)
(* given, a directory's entries in ascending order of their path, all of   *)
(* them before the next target.                                            *)
(***************************************************************************)
LineOf(content, line) ==
    /\ content = GoodAudio =>
          line = <<51, 46, 32, 83, 32, 8211, 32, 65, 32, 40, 48, 51, 58, 48, 53, 41>>
    /\ content = UntitledAudio =>
          line = <<51, 46, 32, 40, 8230, 41, 32, 8211, 32, 65, 32, 40, 8230, 41>>

C2_OneLinePerFileInOrder ==
    RunEnded =>
        /\ CalledFiles = FilesOf(Targets)
        /\ \A i \in 1..Len(calls) :
              IF calls[i].opened
              THEN /\ Len(PrintedBy(i)) = 1
                   /\ LineOf(disk[abspath(calls[i].given_file)], PrintedBy(i)[1])
              ELSE PrintedBy(i) = <<>>

C9_DirectoryEntriesAreClassified ==
    \A i \in 1..Len(calls) :
        calls[i].from_directory => ~isdir(calls[i].given_file)

(***************************************************************************)
(* C9 as amended: every entry of a directory goes to print_file_tracklist  *)
(* without being classified.  An entry that is itself a directory is       *)
(* handed to the metadata reader as a file, which rejects it (an error is  *)
(* logged, no note, no line), and its own entries are never enumerated:    *)
(* only targets are enumerated, and the files handed to the reader are the *)
(* files of the targets one level deep.                                    *)
(***************************************************************************)
C9_DirectoryEntriesGoToTheReader ==
    pc # "environ" =>
        /\ listed = SelectSeq(SubSeq(Targets, 1, next_argument - 1), isdir)
        /\ IsPrefix(CalledFiles, FilesOf(Targets))
        /\ pc = "exited" => CalledFiles = FilesOf(Targets)
        /\ \A i \in 1..Len(calls) :
              (isdir(calls[i].given_file) /\ (i < Len(calls) \/ pc # "tags")) =>
                  /\ calls[i].from_directory
                  /\ ~calls[i].opened
                  /\ Levels(LoggedBy(i)) = <<"ERROR">>
                  /\ PrintedBy(i) = <<>>

\* A run has ended in which an entry that is a directory went to the reader.
C9_Witness ==
    /\ pc = "exited"
    /\ \E i \in 1..Len(calls) :
          calls[i].from_directory /\ isdir(calls[i].given_file) /\ ~calls[i].opened

(***************************************************************************)
(* C10: when processing moves on to the next file, no handle that the      *)
(* reader opened for an earlier file is still open, after a file that was  *)
(* read as after one that was rejected: at most one handle is open at any  *)
(* time.                                                                   *)
(***************************************************************************)
C10_HandleClosedBeforeNextFile ==
    /\ Cardinality(handles) <= 1
    /\ pc = "file" => handles = {}

=============================================================================
